---- MODULE Spec2Model ----
(***************************************************************************)
(* A model of the merx-rs limit order book core: the Order entity          *)
(* (src/src/order.rs), the Engine facade (src/src/engine.rs) and the       *)
(* order book the facade drives.  The orderbook module is not part of the  *)
(* sources at hand; its matcher and cancel path follow sections 4.3-4.6    *)
(* of the specification.                                                   *)
(*                                                                         *)
(* Decimal prices and quantities are modelled by small naturals: the       *)
(* Quantity of the data model is a decimal >= 0 and the code uses only     *)
(* exact +, -, min and comparisons on it.  Order ids are unique, as the    *)
(* data model requires.                                                    *)
(***************************************************************************)
EXTENDS Integers, Sequences, FiniteSets

\* ------------------------------------------------------------------ bounds

\* Prices and quantities range over 0..MaxDec.
MaxDec == 2
\* Order ids range over 1..MaxId.
MaxId == 3

\* The Price and Quantity values of the data model.
Decimals == 0..MaxDec
\* The quantities of the Create requests: positive.
RequestQuantities == 1..MaxDec
OrderIds == 1..MaxId

\* ------------------------------------------------------------ value types

OrderSide == {"Ask", "Bid"}

\* impl Not for OrderSide
NotSide(side) == IF side = "Ask" THEN "Bid" ELSE "Ask"

OrderStatus == {"Open", "Partial", "Cancelled", "Closed", "Completed"}

\* Option<Decimal>::None
None == [tag |-> "None"]

Some(x) == [tag |-> "Some", value |-> x]

\* impl Default for TimeInForce
DefaultTimeInForce == [tag |-> "GTC", post_only |-> FALSE]

\* ----------------------------------------------------------- Order entity

limit_order(id, side, quantity, limit_price) ==
    [ id              |-> id,
      side            |-> side,
      type_           |-> [ tag           |-> "Limit",
                            limit_price   |-> limit_price,
                            time_in_force |-> DefaultTimeInForce ],
      order_quantity  |-> quantity,
      filled_quantity |-> 0,
      status          |-> "Open" ]

market_order(id, side, quantity) ==
    [ id              |-> id,
      side            |-> side,
      type_           |-> [tag |-> "Market", fill_or_kill |-> FALSE],
      order_quantity  |-> quantity,
      filled_quantity |-> 0,
      status          |-> "Open" ]

remaining(o) == o.order_quantity - o.filled_quantity

limit_price(o) ==
    IF o.type_.tag = "Limit" THEN Some(o.type_.limit_price) ELSE None

Min(a, b) == IF a <= b THEN a ELSE b

\* can_trade with the larger of the two remaining quantities.
can_trade_max(o, order) ==
    IF remaining(o) >= remaining(order) THEN remaining(o) ELSE remaining(order)

can_trade(o, order) == Min(remaining(o), remaining(order))

is_bookable(o) == o.type_.tag = "Limit"

is_closed(o) == o.status \in {"Cancelled", "Closed", "Completed"}

\* Ord for Option<Decimal>: None sorts before every Some.
OptionCmp(a, b) ==
    IF a.tag = "None"
    THEN (IF b.tag = "None" THEN "Equal" ELSE "Less")
    ELSE IF b.tag = "None" THEN "Greater"
    ELSE IF a.value < b.value THEN "Less"
    ELSE IF a.value > b.value THEN "Greater"
    ELSE "Equal"

\* impl PartialOrd for Order: equal ids compare Equal, otherwise by price.
partial_cmp(a, b) ==
    IF a.id = b.id THEN "Equal" ELSE OptionCmp(limit_price(a), limit_price(b))

Le(a, b) == partial_cmp(a, b) \in {"Less", "Equal"}

Ge(a, b) == partial_cmp(a, b) \in {"Greater", "Equal"}

\* matches with strict comparisons: equal prices no longer cross.
matches_strict(taker, maker) ==
    IF is_closed(taker) \/ is_closed(maker) \/ limit_price(maker) = None
    THEN FALSE
    ELSE IF taker.type_.tag = "Limit"
         THEN IF taker.side = "Ask" /\ maker.side = "Bid"
              THEN partial_cmp(taker, maker) = "Less"
              ELSE IF taker.side = "Bid" /\ maker.side = "Ask"
              THEN partial_cmp(taker, maker) = "Greater"
              ELSE FALSE
         ELSE TRUE

\* matches without the check that the maker has a price.
matches_any_maker(taker, maker) ==
    IF is_closed(taker) \/ is_closed(maker)
    THEN FALSE
    ELSE IF taker.type_.tag = "Limit"
         THEN IF taker.side = "Ask" /\ maker.side = "Bid" THEN Le(taker, maker)
              ELSE IF taker.side = "Bid" /\ maker.side = "Ask" THEN Ge(taker, maker)
              ELSE FALSE
         ELSE TRUE

matches(taker, maker) ==
    IF is_closed(taker) \/ is_closed(maker) \/ limit_price(maker) = None
    THEN FALSE
    ELSE IF taker.type_.tag = "Limit"
         THEN IF taker.side = "Ask" /\ maker.side = "Bid" THEN Le(taker, maker)
              ELSE IF taker.side = "Bid" /\ maker.side = "Ask" THEN Ge(taker, maker)
              ELSE FALSE
         ELSE TRUE

Ok == [tag |-> "Ok"]

Overfill(fill, rem) == [tag |-> "Overfill", fill |-> fill, remaining |-> rem]

\* fill checking the quantity against order_quantity, not against remaining.
fill_unchecked(o, quantity) ==
    IF quantity > o.order_quantity
    THEN [order |-> o, result |-> Overfill(quantity, remaining(o))]
    ELSE LET filled == o.filled_quantity + quantity
         IN  [ order  |-> [o EXCEPT !.filled_quantity = filled,
                                    !.status = IF filled = o.order_quantity
                                               THEN "Completed"
                                               ELSE "Partial"],
               result |-> Ok ]

\* fill refusing a quantity equal to remaining.
fill_off_by_one(o, quantity) ==
    IF quantity >= remaining(o)
    THEN [order |-> o, result |-> Overfill(quantity, remaining(o))]
    ELSE LET filled == o.filled_quantity + quantity
         IN  [ order  |-> [o EXCEPT !.filled_quantity = filled,
                                    !.status = IF filled = o.order_quantity
                                               THEN "Completed"
                                               ELSE "Partial"],
               result |-> Ok ]

\* fill comparing filled_quantity with the fill's quantity, not with
\* order_quantity: the first fill of an order completes it.
fill_completes_early(o, quantity) ==
    IF quantity > remaining(o)
    THEN [order |-> o, result |-> Overfill(quantity, remaining(o))]
    ELSE LET filled == o.filled_quantity + quantity
         IN  [ order  |-> [o EXCEPT !.filled_quantity = filled,
                                    !.status = IF filled = quantity
                                               THEN "Completed"
                                               ELSE "Partial"],
               result |-> Ok ]

\* Order::fill: the order after the call and the Result it returns.
fill(o, quantity) ==
    IF quantity > remaining(o)
    THEN [order |-> o, result |-> Overfill(quantity, remaining(o))]
    ELSE LET filled == o.filled_quantity + quantity
         IN  [ order  |-> [o EXCEPT !.filled_quantity = filled,
                                    !.status = IF filled = o.order_quantity
                                               THEN "Completed"
                                               ELSE "Partial"],
               result |-> Ok ]

\* cancel taking a Partial order to Cancelled.
cancel_one_status(o) ==
    IF o.status \in {"Open", "Partial"} THEN [o EXCEPT !.status = "Cancelled"]
    ELSE o

\* Order::cancel
cancel(o) ==
    IF o.status = "Open" THEN [o EXCEPT !.status = "Cancelled"]
    ELSE IF o.status = "Partial" THEN [o EXCEPT !.status = "Closed"]
    ELSE o

\* Order::mutate_type
mutate_type(o, order_type) == [o EXCEPT !.type_ = order_type]

\* TimeInForce: GTC { post_only } and IOC { fill_or_kill }.
TimeInForce ==
    {[tag |-> "GTC", post_only |-> b] : b \in BOOLEAN}
        \cup {[tag |-> "IOC", fill_or_kill |-> b] : b \in BOOLEAN}

\* OrderType::Market { fill_or_kill }
MarketTypes == {[tag |-> "Market", fill_or_kill |-> b] : b \in BOOLEAN}

\* OrderFeatures::is_fill_or_kill that reads the flag of IOC limit orders
\* only.
is_fill_or_kill_limit_only(o) ==
    /\ o.type_.tag = "Limit"
    /\ o.type_.time_in_force.tag = "IOC"
    /\ o.type_.time_in_force.fill_or_kill

\* OrderFeatures::is_post_only with the flag read inverted.
is_post_only_inverted(o) ==
    /\ o.type_.tag = "Limit"
    /\ o.type_.time_in_force.tag = "GTC"
    /\ ~o.type_.time_in_force.post_only

\* OrderFeatures::is_immediate_or_cancel without the IOC limit orders.
is_immediate_or_cancel_market_only(o) == o.type_.tag = "Market"

\* OrderFeatures
is_fill_or_kill(o) ==
    \/ /\ o.type_.tag = "Limit"
       /\ o.type_.time_in_force.tag = "IOC"
       /\ o.type_.time_in_force.fill_or_kill
    \/ /\ o.type_.tag = "Market"
       /\ o.type_.fill_or_kill

is_post_only(o) ==
    /\ o.type_.tag = "Limit"
    /\ o.type_.time_in_force.tag = "GTC"
    /\ o.type_.time_in_force.post_only

is_immediate_or_cancel(o) ==
    \/ /\ o.type_.tag = "Limit"
       /\ o.type_.time_in_force.tag = "IOC"
    \/ o.type_.tag = "Market"

\* -------------------------------------------------------------- order book
\* A BookSide is a map from price to PriceLevel (the FIFO queue of the resting
\* orders at that price); a price is a key only while its level exists.  The
\* Index maps the id of each resting order to its (side, price).

EmptySide == [p \in {} |-> <<>>]

EmptyIndex == [i \in {} |-> [side |-> "Ask", price |-> 0]]

SetMin(S) == CHOOSE x \in S : \A y \in S : x <= y

SetMax(S) == CHOOSE x \in S : \A y \in S : x >= y

\* Best price of a book side: lowest ask, highest bid.
best_price(levels, side) ==
    IF side = "Ask" THEN SetMin(DOMAIN levels) ELSE SetMax(DOMAIN levels)

\* Insertion at the head of the level.
push_front(levels, price, order) ==
    IF price \in DOMAIN levels
    THEN [levels EXCEPT ![price] = <<order>> \o @]
    ELSE [p \in DOMAIN levels \cup {price} |->
            IF p = price THEN <<order>> ELSE levels[p]]

\* PriceLevel::push_back within BookSide insertion: find or create the level.
push_back(levels, price, order) ==
    IF price \in DOMAIN levels
    THEN [levels EXCEPT ![price] = Append(@, order)]
    ELSE [p \in DOMAIN levels \cup {price} |->
            IF p = price THEN <<order>> ELSE levels[p]]

\* Removal of a level.
drop_level(levels, price) == [p \in DOMAIN levels \ {price} |-> levels[p]]

\* PriceLevel::pop_front, the level being removed when it becomes empty.
pop_front(levels, price) ==
    IF Len(levels[price]) = 1
    THEN drop_level(levels, price)
    ELSE [levels EXCEPT ![price] = Tail(@)]

\* The head of a level after a fill that left it resting.
replace_front(levels, price, order) ==
    [levels EXCEPT ![price] = <<order>> \o Tail(@)]

index_insert(index, order) ==
    [i \in DOMAIN index \cup {order.id} |->
        IF i = order.id
        THEN [side |-> order.side, price |-> order.type_.limit_price]
        ELSE index[i]]

index_remove(index, id) == [i \in DOMAIN index \ {id} |-> index[i]]

Trade(taker, maker, quantity) ==
    [ taker_id |-> taker.id,
      maker_id |-> maker.id,
      price    |-> maker.type_.limit_price,
      quantity |-> quantity ]

\* The matching loop.  st holds the taker, the opposing book side, the index,
\* the trades emitted so far, the makers evicted (Completed) so far, and
\* whether a fill returned Overfill.
RECURSIVE match_loop(_)
match_loop(st) ==
    IF st.overfill \/ ~(remaining(st.taker) > 0) \/ DOMAIN st.levels = {}
    THEN st
    ELSE LET p  == best_price(st.levels, NotSide(st.taker.side))
             M  == Head(st.levels[p])
         IN  IF ~matches(st.taker, M)
             THEN st
             ELSE LET q  == can_trade(st.taker, M)
                      tf == fill(st.taker, q)
                      mf == fill(M, q)
                  IN  IF tf.result # Ok \/ mf.result # Ok
                      THEN [st EXCEPT !.overfill = TRUE]
                      ELSE match_loop(
                             [ taker    |-> tf.order,
                               levels   |-> IF is_closed(mf.order)
                                            THEN pop_front(st.levels, p)
                                            ELSE replace_front(st.levels, p, mf.order),
                               index    |-> IF is_closed(mf.order)
                                            THEN index_remove(st.index, M.id)
                                            ELSE st.index,
                               trades   |-> Append(st.trades, Trade(st.taker, M, q)),
                               evicted  |-> IF is_closed(mf.order)
                                            THEN Append(st.evicted, mf.order)
                                            ELSE st.evicted,
                               overfill |-> FALSE ])

RECURSIVE SumRemaining(_)
SumRemaining(level) ==
    IF level = <<>> THEN 0 ELSE remaining(Head(level)) + SumRemaining(Tail(level))

\* Fill-or-kill precheck: the quantity resting on the opposing side at the
\* prices the taker crosses.
RECURSIVE available(_, _)
available(taker, levels) ==
    IF DOMAIN levels = {}
    THEN 0
    ELSE LET p == best_price(levels, NotSide(taker.side))
         IN  IF ~matches(taker, Head(levels[p]))
             THEN 0
             ELSE SumRemaining(levels[p]) + available(taker, drop_level(levels, p))

own_side(ob, side) == IF side = "Ask" THEN ob.asks ELSE ob.bids

with_side(ob, side, levels) ==
    IF side = "Ask" THEN [ob EXCEPT !.asks = levels] ELSE [ob EXCEPT !.bids = levels]

\* The outcome of a match call that leaves the book as it was.
rejected(ob, taker) ==
    [ ob |-> ob, taker |-> cancel(taker), trades |-> <<>>, evicted |-> <<>>,
      overfill |-> FALSE ]

\* Booking of a taker as a resting maker, at the tail of its price level.
book(ob, taker) ==
    [ob EXCEPT !.asks  = IF taker.side = "Ask"
                         THEN push_back(@, taker.type_.limit_price, taker) ELSE @,
               !.bids  = IF taker.side = "Bid"
                         THEN push_back(@, taker.type_.limit_price, taker) ELSE @,
               !.index = index_insert(@, taker)]

\* Orderbook::match: the book, the taker, the trades and the evicted makers
\* after the call.
match(ob, T) ==
    LET opp == NotSide(T.side)
        B   == own_side(ob, opp)
    IN  IF is_post_only(T)
        THEN IF DOMAIN B # {} /\ matches(T, Head(B[best_price(B, opp)]))
             THEN rejected(ob, T)
             ELSE [ ob |-> book(ob, T), taker |-> T, trades |-> <<>>,
                    evicted |-> <<>>, overfill |-> FALSE ]
        ELSE IF is_fill_or_kill(T) /\ available(T, B) < T.order_quantity
        THEN rejected(ob, T)
        ELSE LET st == match_loop([ taker |-> T, levels |-> B, index |-> ob.index,
                                    trades |-> <<>>, evicted |-> <<>>,
                                    overfill |-> FALSE ])
                 after == [with_side(ob, opp, st.levels) EXCEPT !.index = st.index]
                 rest  == remaining(st.taker) > 0 /\ ~st.overfill
             IN  [ ob       |-> IF rest /\ ~is_immediate_or_cancel(st.taker)
                                THEN book(after, st.taker) ELSE after,
                   taker    |-> IF rest /\ is_immediate_or_cancel(st.taker)
                                THEN cancel(st.taker) ELSE st.taker,
                   trades   |-> st.trades,
                   evicted  |-> st.evicted,
                   overfill |-> st.overfill ]

\* The orders of a level other than the one with the given id.
RECURSIVE remove_by_id(_, _)
remove_by_id(level, id) ==
    IF level = <<>> THEN <<>>
    ELSE IF Head(level).id = id THEN Tail(level)
    ELSE <<Head(level)>> \o remove_by_id(Tail(level), id)

RECURSIVE find_by_id(_, _)
find_by_id(level, id) ==
    IF level = <<>> THEN <<>>
    ELSE IF Head(level).id = id THEN <<Head(level)>>
    ELSE find_by_id(Tail(level), id)

\* Orderbook::remove, the cancel path: the book after the call and the
\* orders taken out of it (none for an id the index does not know).
remove(ob, id) ==
    IF id \notin DOMAIN ob.index
    THEN [ob |-> ob, removed |-> <<>>]
    ELSE LET side   == ob.index[id].side
             price  == ob.index[id].price
             levels == own_side(ob, side)
             level  == IF price \in DOMAIN levels THEN levels[price] ELSE <<>>
             found  == find_by_id(level, id)
             left   == remove_by_id(level, id)
         IN  IF found = <<>>
             THEN [ob |-> ob, removed |-> <<>>]
             ELSE [ ob      |-> [with_side(ob, side,
                                    IF left = <<>>
                                    THEN drop_level(levels, price)
                                    ELSE [levels EXCEPT ![price] = left])
                                 EXCEPT !.index = index_remove(ob.index, id)],
                    removed |-> <<cancel(found[1])>> ]

\* ------------------------------------------------------------------ state

VARIABLES
    asks,      \* Orderbook: the ask side, price -> level
    bids,      \* Orderbook: the bid side, price -> level
    index,     \* Orderbook: order id -> (side, price) of the resting order
    trades,    \* the trades emitted by the last process call, in order
    taken,     \* the taker of the last process call, as the matcher left it
    overfill,  \* whether a fill of the matcher ever returned Overfill
    created,   \* the number of Create requests processed so far
    result,    \* what the last process call returned
    ledger,    \* history: per side, the totals over the terminal orders
    resting,   \* history: per resting order id, the sum of its trades so far
    request,   \* history: the last request, where the requests are recorded
    snapshot,  \* history: the book before a cancel that is followed up
    taker,     \* Order entity: an order driven through fill/cancel/matches
    maker,     \* Order entity: a second order, the maker of matches
    call,      \* Order entity: the last call made on taker or maker
    pre,       \* Order entity: the receiver as it was before the last call
    ret        \* Order entity: what the last call returned

engine_vars == <<asks, bids, index, trades, taken, overfill, created, result,
                 ledger, resting, request, snapshot>>

order_vars == <<taker, maker, call, pre, ret>>

vars == <<asks, bids, index, trades, taken, overfill, created, result,
          ledger, resting, request, snapshot, taker, maker, call, pre, ret>>

NoCall == [op |-> "none"]

\* The Order entity at rest while the engine runs.
OrderIdle ==
    /\ taker = limit_order(1, "Ask", 0, 0)
    /\ maker = limit_order(2, "Bid", 0, 0)
    /\ call = NoCall
    /\ pre = taker
    /\ ret = Ok

\* No taker: the last call was a Cancel, or there was none.
NoOrder == [id |-> 0]

NoTotals == [quantity |-> 0, traded |-> 0, cancelled |-> 0]

\* No request recorded.
NoRequest == [op |-> "none"]

\* No round trip under way.
NoSnapshot == [stage |-> "none"]

\* The pair the engine is built for (util::DEFAULT_PAIR) and another one.
EnginePair == "ETH/USDT"

Pairs == {"ETH/USDT", "BTC/USDT"}

\* EngineError::InvalidPair
InvalidPair(expected, found) ==
    [tag |-> "InvalidPair", expected |-> expected, found |-> found]

\* Engine::new: an empty order book.
EngineInit ==
    /\ asks = EmptySide
    /\ bids = EmptySide
    /\ index = EmptyIndex
    /\ trades = <<>>
    /\ taken = NoOrder
    /\ overfill = FALSE
    /\ created = 0
    /\ result = Ok
    /\ ledger = [s \in OrderSide |-> NoTotals]
    /\ resting = [i \in OrderIds |-> 0]
    /\ request = NoRequest
    /\ snapshot = NoSnapshot

Orderbook == [asks |-> asks, bids |-> bids, index |-> index]

\* --------------------------------------------------------------- engine

\* The quantity of the trades of ts in which order id took part.
RECURSIVE TradedIn(_, _)
TradedIn(ts, id) ==
    IF ts = <<>> THEN 0
    ELSE (IF id \in {Head(ts).taker_id, Head(ts).maker_id}
          THEN Head(ts).quantity ELSE 0) + TradedIn(Tail(ts), id)

\* The ledger after the orders of left have left the engine in a call that
\* emitted the trades ts: a terminal order adds its order_quantity, the
\* quantity of all its trades and, when it was cancelled, its unfilled
\* remainder to the totals of its side.
RECURSIVE Posted(_, _, _, _)
Posted(led, left, ts, sums) ==
    IF left = <<>> THEN led
    ELSE LET o == Head(left)
             n == IF is_closed(o)
                  THEN [ quantity  |-> led[o.side].quantity + o.order_quantity,
                         traded    |-> led[o.side].traded + sums[o.id]
                                         + TradedIn(ts, o.id),
                         cancelled |-> led[o.side].cancelled
                                         + (IF o.status \in {"Cancelled", "Closed"}
                                            THEN remaining(o) ELSE 0) ]
                  ELSE led[o.side]
         IN  Posted([led EXCEPT ![o.side] = n], Tail(left), ts, sums)

\* The order Engine::process builds from a Create request: the request's
\* limit_price and quantity are handed to Order::limit_order in that order.
create_order(order_id, side, req_limit_price, req_quantity) ==
    limit_order(order_id, side, req_limit_price, req_quantity)

\* The state of the order book after a match call with outcome out.
Matched(out) ==
    /\ asks' = out.ob.asks
    /\ bids' = out.ob.bids
    /\ index' = out.ob.index
    /\ trades' = out.trades
    /\ taken' = out.taker
    /\ overfill' = (overfill \/ out.overfill)
    /\ created' = created + 1

\* The history of the terminal orders after that match call.
MatchJournal(out) ==
    \E left \in {out.evicted \o (IF out.taker.id \in DOMAIN out.ob.index
                                 THEN <<>> ELSE <<out.taker>>)} :
        /\ ledger' = Posted(ledger, left, out.trades, resting)
        /\ resting' = [i \in OrderIds |->
                         IF i \in DOMAIN out.ob.index
                         THEN resting[i] + TradedIn(out.trades, i) ELSE 0]

\* The state of the order book after a remove call with outcome out.
Removed(out) ==
    /\ asks' = out.ob.asks
    /\ bids' = out.ob.bids
    /\ index' = out.ob.index
    /\ trades' = <<>>
    /\ taken' = NoOrder
    /\ UNCHANGED <<overfill, created>>

\* The history of the terminal orders after that remove call.
RemoveJournal(out) ==
    /\ ledger' = Posted(ledger, out.removed, <<>>, resting)
    /\ resting' = [i \in OrderIds |->
                     IF i \in DOMAIN out.ob.index THEN resting[i] ELSE 0]

\* Engine::process, Create arm: the order is built and matched, the outcome
\* of the match is dropped and Ok(()) returned; account_id and pair are not
\* read.
process_create(order_id, side, req_limit_price, req_quantity) ==
    /\ created < MaxId
    /\ \E out \in {match(Orderbook,
                         create_order(order_id, side, req_limit_price, req_quantity))} :
           Matched(out) /\ MatchJournal(out)
    /\ result' = Ok

\* Engine::process, Cancel arm, without the call of Orderbook::remove.
process_cancel_ignored(order_id) ==
    /\ trades' = <<>>
    /\ taken' = NoOrder
    /\ result' = Ok
    /\ UNCHANGED <<asks, bids, index, overfill, created, ledger, resting>>

\* Engine::process, Cancel arm, with the outcome of the remove propagated
\* to the caller (orderbook.remove(..)? in place of let _ = ..).
process_cancel_propagates(order_id) ==
    \E out \in {remove(Orderbook, order_id)} :
        /\ Removed(out) /\ RemoveJournal(out)
        /\ result' = (IF out.removed = <<>> THEN [tag |-> "NotFound"] ELSE Ok)

\* Engine::process, Cancel arm: the outcome of the remove is dropped and
\* Ok(()) returned.
process_cancel(order_id) ==
    /\ \E out \in {remove(Orderbook, order_id)} :
           Removed(out) /\ RemoveJournal(out)
    /\ result' = Ok

\* Engine::process of a Create request.  Ids are opaque and unique, so the
\* requests are numbered in the order process observes them.
Create(side, req_limit_price, req_quantity) ==
    /\ process_create(created + 1, side, req_limit_price, req_quantity)
    /\ UNCHANGED <<request, snapshot>>
    /\ UNCHANGED order_vars

\* Engine::process of a Cancel request.
Cancel(order_id) ==
    /\ process_cancel(order_id)
    /\ UNCHANGED <<request, snapshot>>
    /\ UNCHANGED order_vars

Init == EngineInit /\ OrderIdle

Next ==
    \/ \E side \in OrderSide, p \in Decimals, q \in RequestQuantities :
          Create(side, p, q)
    \/ \E id \in OrderIds : Cancel(id)

Spec == Init /\ [][Next]_vars

\* ------------------------------------------ the facade, requests recorded

\* The request as process receives it, with the order it builds from it.
CreateRequested(pair, side, req_limit_price, req_quantity) ==
    [ op          |-> "Create",
      pair        |-> pair,
      side        |-> side,
      limit_price |-> Some(req_limit_price),
      quantity    |-> req_quantity,
      order       |-> create_order(created + 1, side, req_limit_price, req_quantity) ]

CancelRequested(order_id) == [op |-> "Cancel", order_id |-> order_id]

\* Engine::process of OrderRequest::Create { pair, side, limit_price, quantity }.
CreateRequest(pair, side, req_limit_price, req_quantity) ==
    /\ process_create(created + 1, side, req_limit_price, req_quantity)
    /\ request' = CreateRequested(pair, side, req_limit_price, req_quantity)
    /\ UNCHANGED snapshot
    /\ UNCHANGED order_vars

\* Engine::process of OrderRequest::Cancel { order_id }.
CancelRequest(order_id) ==
    /\ process_cancel(order_id)
    /\ request' = CancelRequested(order_id)
    /\ UNCHANGED snapshot
    /\ UNCHANGED order_vars

FacadeNext ==
    \/ \E pair \in Pairs, side \in OrderSide, p \in Decimals, q \in RequestQuantities :
          CreateRequest(pair, side, p, q)
    \/ \E id \in OrderIds : CancelRequest(id)

SpecFacade == Init /\ [][FacadeNext]_vars

\* ------------------------------------- the order book, every order type

\* The orders handed to Orderbook::match, of positive quantity and price:
\* the limit orders of the given times in force, and the market orders if
\* asked for.
OrdersOf(id, tifs, markets) ==
    UNION { { mutate_type(limit_order(id, side, q, p),
                          [tag |-> "Limit", limit_price |-> p, time_in_force |-> tif]) :
                tif \in tifs } :
              side \in OrderSide, q \in RequestQuantities, p \in RequestQuantities }
      \cup { mutate_type(market_order(id, side, q), ty) :
               side \in OrderSide, q \in RequestQuantities, ty \in markets }

\* The takers explored under one id: the book is built by orders of the
\* type Engine::process builds (GTC, not post only), and the order with the
\* last id is of any type.
Takers(id) ==
    IF id < MaxId
    THEN OrdersOf(id, {DefaultTimeInForce}, {})
    ELSE OrdersOf(id, TimeInForce, MarketTypes)

\* Orderbook::match called with the order T.
MatchCall(T) ==
    /\ created < MaxId
    /\ \E out \in {match(Orderbook, T)} : Matched(out)
    /\ UNCHANGED <<result, ledger, resting, request, snapshot>>
    /\ UNCHANGED order_vars

\* Orderbook::remove called with an order id.
RemoveCall(order_id) ==
    /\ \E out \in {remove(Orderbook, order_id)} : Removed(out)
    /\ UNCHANGED <<result, ledger, resting, request, snapshot>>
    /\ UNCHANGED order_vars

BookNext ==
    \/ \E T \in Takers(created + 1) : MatchCall(T)
    \/ \E id \in OrderIds : RemoveCall(id)

SpecBook == Init /\ [][BookNext]_vars

\* ------------------------------------------- cancel and re-submit

\* The order with the given id resting in the book ob.
resting_order(ob, id) ==
    LET e == ob.index[id]
    IN  CHOOSE o \in {own_side(ob, e.side)[e.price][k] :
                         k \in DOMAIN own_side(ob, e.side)[e.price]} : o.id = id

\* The Create request that booked order o: create_order made the request's
\* limit_price the order_quantity of o and its quantity the limit price.
BookingRequest(o) ==
    [ side        |-> o.side,
      limit_price |-> o.order_quantity,
      quantity    |-> o.type_.limit_price ]

\* Engine::process of a Cancel request for a resting order; the book before
\* the call and the order are kept for the re-submission.
CancelResting(order_id) ==
    /\ snapshot = NoSnapshot
    /\ order_id \in DOMAIN index
    /\ created < MaxId
    /\ process_cancel(order_id)
    /\ snapshot' = [ stage |-> "cancelled",
                     book  |-> Orderbook,
                     order |-> resting_order(Orderbook, order_id) ]
    /\ UNCHANGED request
    /\ UNCHANGED order_vars

\* Engine::process of a Create request identical to the one that booked the
\* order just cancelled.
Resubmit ==
    /\ snapshot.stage = "cancelled"
    /\ \E req \in {BookingRequest(snapshot.order)} :
           process_create(created + 1, req.side, req.limit_price, req.quantity)
    /\ snapshot' = [snapshot EXCEPT !.stage = "resubmitted"]
    /\ UNCHANGED request
    /\ UNCHANGED order_vars

RoundTripNext ==
    \/ /\ snapshot = NoSnapshot
       /\ \E side \in OrderSide, p \in Decimals, q \in RequestQuantities :
             Create(side, p, q)
    \/ /\ snapshot = NoSnapshot
       /\ \E id \in OrderIds : Cancel(id)
    \/ \E id \in OrderIds : CancelResting(id)
    \/ Resubmit

SpecRoundTrip == Init /\ [][RoundTripNext]_vars

\* ------------------------------------------------- the Order entity alone

\* The orders the two constructors build.
NewOrders(id) ==
    {limit_order(id, side, q, p) : side \in OrderSide, q \in Decimals, p \in Decimals}
    \cup {market_order(id, side, q) : side \in OrderSide, q \in Decimals}

\* The quantities handed to fill: every Quantity up to one more than any
\* order_quantity.
FillQuantities == 0..(MaxDec + 1)

OrderInit ==
    /\ EngineInit
    /\ taker \in NewOrders(1)
    /\ maker = limit_order(2, "Bid", 0, 0)
    /\ call = NoCall
    /\ pre = taker
    /\ ret = Ok

\* taker.fill(quantity)
FillCall(quantity) ==
    /\ \E out \in {fill(taker, quantity)} :
           /\ taker' = out.order
           /\ ret' = out.result
    /\ pre' = taker
    /\ call' = [op |-> "fill", quantity |-> quantity]
    /\ UNCHANGED maker
    /\ UNCHANGED engine_vars

\* taker.cancel()
CancelCall ==
    /\ taker' = cancel(taker)
    /\ ret' = Ok
    /\ pre' = taker
    /\ call' = [op |-> "cancel"]
    /\ UNCHANGED maker
    /\ UNCHANGED engine_vars

OrderNext ==
    \/ \E q \in FillQuantities : FillCall(q)
    \/ CancelCall

SpecOrder == OrderInit /\ [][OrderNext]_vars

\* ------------------------------------------------------ matches on a pair

\* Two orders of different ids, each driven through fills and cancels, and
\* taker.matches(maker) evaluated on them.
MatchInit ==
    /\ EngineInit
    /\ taker \in NewOrders(1)
    /\ maker \in NewOrders(2)
    /\ call = NoCall
    /\ pre = limit_order(1, "Ask", 0, 0)
    /\ ret = Ok

\* A fill of one of the two orders; a failing fill changes nothing.
PairFill(which, quantity) ==
    /\ IF which = "taker"
       THEN taker' = fill(taker, quantity).order /\ UNCHANGED maker
       ELSE maker' = fill(maker, quantity).order /\ UNCHANGED taker
    /\ call' = NoCall
    /\ ret' = Ok
    /\ UNCHANGED pre
    /\ UNCHANGED engine_vars

PairCancel(which) ==
    /\ IF which = "taker"
       THEN taker' = cancel(taker) /\ UNCHANGED maker
       ELSE maker' = cancel(maker) /\ UNCHANGED taker
    /\ call' = NoCall
    /\ ret' = Ok
    /\ UNCHANGED pre
    /\ UNCHANGED engine_vars

\* taker.matches(&maker)
MatchesCall ==
    /\ ret' = matches(taker, maker)
    /\ call' = [op |-> "matches"]
    /\ UNCHANGED <<taker, maker, pre>>
    /\ UNCHANGED engine_vars

MatchNext ==
    \/ \E w \in {"taker", "maker"}, q \in FillQuantities : PairFill(w, q)
    \/ \E w \in {"taker", "maker"} : PairCancel(w)
    \/ MatchesCall

SpecMatch == MatchInit /\ [][MatchNext]_vars

\* ============================================================== properties

\* --------------------------------------------------------------------- Spec

IsLimit(o) == o.type_.tag = "Limit"

\* Whether price a is strictly better than price b on a book side.
Better(side, a, b) == IF side = "Ask" THEN a < b ELSE a > b

\* C1: price-time priority.  For two trades of one process(Create) call,
\* the first emitted before the second, both have the call's taker, and
\* either the first maker's price is strictly better on the makers' side
\* (lower for asks, higher for bids) or the prices are equal and the first
\* maker was booked strictly earlier (orders are numbered by arrival).
PriceTimePriority ==
    \A i, j \in DOMAIN trades :
        i < j =>
            /\ trades[i].taker_id = taken.id
            /\ trades[j].taker_id = taken.id
            /\ \/ Better(NotSide(taken.side), trades[i].price, trades[j].price)
               \/ /\ trades[i].price = trades[j].price
                  /\ trades[i].maker_id < trades[j].maker_id

\* A taker that traded with two makers resting at one price.
PriceTimePriority_Reached ==
    /\ Len(trades) = 2
    /\ trades[1].price = trades[2].price
    /\ trades[1].maker_id # trades[2].maker_id

SeqToSet(s) == {s[i] : i \in DOMAIN s}

\* The orders resting on a book side.
Resting(levels) == UNION {SeqToSet(levels[p]) : p \in DOMAIN levels}

RECURSIVE Slots(_)
Slots(levels) ==
    IF DOMAIN levels = {} THEN 0
    ELSE LET p == CHOOSE x \in DOMAIN levels : TRUE
         IN  Len(levels[p]) + Slots([x \in DOMAIN levels \ {p} |-> levels[x]])

\* C2: index/book bijection.  After every process call the keys of the index
\* are exactly the ids of the Limit orders resting in the two book sides
\* with status Open or Partial, one order per key, and each entry's
\* (side, price) is the level where that order rests.
IndexBookBijection ==
    LET open == {o \in Resting(asks) \cup Resting(bids) :
                    IsLimit(o) /\ o.status \in {"Open", "Partial"}}
    IN  /\ DOMAIN index = {o.id : o \in open}
        /\ Slots(asks) + Slots(bids) = Cardinality(DOMAIN index)
        /\ \A id \in DOMAIN index :
              LET levels == IF index[id].side = "Ask" THEN asks ELSE bids
              IN  /\ index[id].price \in DOMAIN levels
                  /\ \E k \in DOMAIN levels[index[id].price] :
                        LET o == levels[index[id].price][k]
                        IN  /\ o.id = id
                            /\ o.side = index[id].side
                            /\ o.type_.limit_price = index[id].price

\* A call that evicted its maker and booked its taker, filled in part,
\* beside an order that rested before.
IndexBookBijection_Reached ==
    /\ Len(trades) = 1
    /\ trades[1].maker_id \notin DOMAIN index
    /\ taken.id \in DOMAIN index
    /\ taken.status = "Partial"
    /\ Cardinality(DOMAIN index) = 2

RECURSIVE SumOver(_, _)
SumOver(f, S) ==
    IF S = {} THEN 0
    ELSE LET x == CHOOSE y \in S : TRUE IN f[x] + SumOver(f, S \ {x})

\* The quantity of the trades of the orders still resting on a side.
RestingTraded(side) ==
    SumOver(resting, {o.id : o \in Resting(IF side = "Ask" THEN asks ELSE bids)})

\* C3 as stated: for each side S, the order_quantity of the terminal orders
\* of S sums to the quantity of the trades in which an order of S took part
\* plus the unfilled remainders of the cancelled (Cancelled or Closed)
\* orders of S.
ConservationAllTrades ==
    \A side \in OrderSide :
        ledger[side].quantity =
            (ledger[side].traded + RestingTraded(side)) + ledger[side].cancelled

\* C3, amended: for each side S, the order_quantity of the terminal orders
\* of S sums to the quantity of the trades in which a terminal order of S
\* took part plus the unfilled remainders of the cancelled orders of S; the
\* trades of an order that still rests are not counted.
ConservationTerminalTrades ==
    \A side \in OrderSide :
        ledger[side].quantity = ledger[side].traded + ledger[side].cancelled

\* A side with an order cancelled after a fill (Closed), the other side
\* with the Completed order it traded with.
ConservationTerminalTrades_Reached ==
    \E side \in OrderSide :
        /\ ledger[side].cancelled > 0
        /\ ledger[side].traded > 0
        /\ ledger[NotSide(side)].quantity > 0
        /\ DOMAIN index # {}

\* ---------------------------------------------------------------- SpecOrder

\* C4: after any sequence of fill and cancel calls, succeeding or failing,
\* 0 <= filled_quantity <= order_quantity, so remaining() is never negative.
FilledWithinQuantity ==
    /\ 0 <= taker.filled_quantity
    /\ taker.filled_quantity <= taker.order_quantity
    /\ remaining(taker) >= 0

\* A failing fill of an order that was filled in part before.
FilledWithinQuantity_Reached ==
    /\ call = [op |-> "fill", quantity |-> MaxDec]
    /\ ret.tag = "Overfill"
    /\ taker.filled_quantity > 0
    /\ remaining(taker) > 0

\* C5: in every reachable state of an order, status = Completed if and only
\* if filled_quantity = order_quantity.
CompletedIffFilled ==
    (taker.status = "Completed") <=> (taker.filled_quantity = taker.order_quantity)

\* C6: once an order is Cancelled, Closed or Completed, no later fill or
\* cancel call changes its status or its filled_quantity.
TerminalImmutable ==
    (call.op \in {"fill", "cancel"} /\ is_closed(pre))
        => /\ taker.status = pre.status
           /\ taker.filled_quantity = pre.filled_quantity

\* C7: fill(qty) fails with Overfill{fill: qty, remaining} exactly when
\* qty > remaining, leaving filled_quantity and status as they were;
\* otherwise it succeeds, adds exactly qty to filled_quantity and sets the
\* status to Completed if filled_quantity now equals order_quantity, else to
\* Partial.
FillContract ==
    call.op = "fill" =>
        LET qty == call.quantity
            rem == pre.order_quantity - pre.filled_quantity
        IN  /\ (ret.tag = "Overfill") <=> (qty > rem)
            /\ qty > rem =>
                 /\ ret = [tag |-> "Overfill", fill |-> qty, remaining |-> rem]
                 /\ taker.filled_quantity = pre.filled_quantity
                 /\ taker.status = pre.status
            /\ ~(qty > rem) =>
                 /\ ret.tag = "Ok"
                 /\ taker.filled_quantity = pre.filled_quantity + qty
                 /\ taker.status =
                      IF taker.filled_quantity = taker.order_quantity
                      THEN "Completed" ELSE "Partial"
            /\ taker.order_quantity = pre.order_quantity

\* A fill of exactly the remainder of an order filled in part before.
FillContract_Reached ==
    /\ call.op = "fill"
    /\ call.quantity > 0
    /\ pre.status = "Partial"
    /\ pre.filled_quantity > 0
    /\ call.quantity = pre.order_quantity - pre.filled_quantity
    /\ taker.status = "Completed"

\* C8: cancel() moves an Open order to Cancelled and a Partial order to
\* Closed, is a no-op on a terminal order, and never changes
\* filled_quantity, order_quantity, side, type or id.
CancelContract ==
    call.op = "cancel" =>
        /\ pre.status = "Open" => taker.status = "Cancelled"
        /\ pre.status = "Partial" => taker.status = "Closed"
        /\ pre.status \in {"Cancelled", "Closed", "Completed"} => taker = pre
        /\ taker.filled_quantity = pre.filled_quantity
        /\ taker.order_quantity = pre.order_quantity
        /\ taker.side = pre.side
        /\ taker.type_ = pre.type_
        /\ taker.id = pre.id

\* A cancel of an order filled in part.
CancelContract_Reached ==
    /\ call.op = "cancel"
    /\ pre.status = "Partial"
    /\ pre.filled_quantity > 0
    /\ taker.status = "Closed"

\* ---------------------------------------------------------------- SpecMatch

\* C9: for a non-closed Limit taker T and a non-closed Limit maker M,
\* T.matches(M) is true iff T is an Ask, M a Bid and T.price <= M.price, or
\* T is a Bid, M an Ask and T.price >= M.price; it is false when both are on
\* the same side.
LimitMatches ==
    ( /\ call.op = "matches"
      /\ IsLimit(taker) /\ ~is_closed(taker)
      /\ IsLimit(maker) /\ ~is_closed(maker) )
        => /\ (ret = TRUE) <=>
                \/ /\ taker.side = "Ask" /\ maker.side = "Bid"
                   /\ taker.type_.limit_price <= maker.type_.limit_price
                \/ /\ taker.side = "Bid" /\ maker.side = "Ask"
                   /\ taker.type_.limit_price >= maker.type_.limit_price
           /\ taker.side = maker.side => ret = FALSE

\* A Partial Bid taker matched with an Ask maker resting at its very price.
LimitMatches_Reached ==
    /\ call.op = "matches"
    /\ IsLimit(taker) /\ taker.status = "Partial" /\ taker.side = "Bid"
    /\ IsLimit(maker) /\ maker.status = "Open" /\ maker.side = "Ask"
    /\ taker.type_.limit_price = maker.type_.limit_price
    /\ ret = TRUE

\* C10: a Market order matches only as taker: T.matches(M) is true for every
\* non-closed Market taker T and non-closed Limit maker M of the opposing
\* side, whatever M's price, and false whenever the maker is a Market order
\* or either order is closed.
MarketMatches ==
    call.op = "matches" =>
        /\ ( /\ ~IsLimit(taker) /\ ~is_closed(taker)
             /\ IsLimit(maker) /\ ~is_closed(maker)
             /\ maker.side = NotSide(taker.side) ) => ret = TRUE
        /\ (~IsLimit(maker) \/ is_closed(taker) \/ is_closed(maker)) => ret = FALSE

\* A Market taker refused by a Market maker of the opposing side.
MarketMatches_Reached ==
    /\ call.op = "matches"
    /\ ~IsLimit(taker) /\ ~is_closed(taker)
    /\ ~IsLimit(maker) /\ ~is_closed(maker)
    /\ maker.side = NotSide(taker.side)
    /\ ret = FALSE

\* ---------------------------------------------------------------- C11
\* C11: process of a Create request whose pair differs from the engine's
\* pair returns InvalidPair { expected, found } and leaves the book, the
\* index and the trades unchanged.
InvalidPairRejected ==
    [][ (request'.op = "Create" /\ request'.pair # EnginePair)
          => /\ result' = InvalidPair(EnginePair, request'.pair)
             /\ asks' = asks /\ bids' = bids /\ index' = index
             /\ trades' = <<>> ]_vars

\* ---------------------------------------------------------------- C12
\* C12: the order process hands to the matcher for Create { side,
\* limit_price: Some(p), quantity } is an Open Limit order of that side with
\* filled_quantity 0, order_quantity equal to the request's quantity and
\* limit price p.
CreateBuildsRequestedOrder ==
    request.op = "Create"
        => /\ request.order.side = request.side
           /\ request.order.status = "Open"
           /\ request.order.filled_quantity = 0
           /\ request.order.order_quantity = request.quantity
           /\ request.order.type_.tag = "Limit"
           /\ Some(request.order.type_.limit_price) = request.limit_price

\* ---------------------------------------------------------------- C13
\* C13: process of a Cancel request for an id that is not in the index
\* returns Ok, emits no trade and leaves both sides of the book and the
\* index as they were.
CancelUnknownIsNoop ==
    [][ (request'.op = "Cancel" /\ request'.order_id \notin DOMAIN index)
          => /\ result' = Ok
             /\ trades' = <<>>
             /\ asks' = asks /\ bids' = bids /\ index' = index ]_vars

\* An order rests and the last request cancelled an id that was never
\* issued.
CancelUnknownIsNoop_Reached ==
    /\ request.op = "Cancel"
    /\ request.order_id > created
    /\ index # EmptyIndex
    /\ result = Ok


\* ---------------------------------------------------------------- C14
\* Fill-or-kill, read from the type of the order.
FillOrKill(o) ==
    IF o.type_.tag = "Market" THEN o.type_.fill_or_kill
    ELSE o.type_.time_in_force.tag = "IOC" /\ o.type_.time_in_force.fill_or_kill

\* The orders resting on the opposing side at prices the taker T can cross:
\* all of them for a Market taker, those priced at or below a bid's limit
\* (at or above an ask's limit) for a Limit taker.
CrossableOrders(T, levels) ==
    {o \in Resting(levels) :
        \/ T.type_.tag = "Market"
        \/ /\ T.type_.tag = "Limit"
           /\ IF T.side = "Bid"
              THEN o.type_.limit_price <= T.type_.limit_price
              ELSE o.type_.limit_price >= T.type_.limit_price}

\* Their total remaining quantity.
Crossable(T, levels) ==
    LET S == CrossableOrders(T, levels)
    IN  SumOver([i \in {o.id : o \in S} |-> remaining(CHOOSE o \in S : o.id = i)],
                {o.id : o \in S})

PostOnly(o) ==
    /\ o.type_.tag = "Limit"
    /\ o.type_.time_in_force.tag = "GTC"
    /\ o.type_.time_in_force.post_only

\* The order as it arrived at the matcher.
Arrived(o) == [o EXCEPT !.status = "Open", !.filled_quantity = 0]

\* Whether the arriving order T matches the best order of the book side
\* levels, the side opposing T.
MatchesBest(T, levels) ==
    /\ DOMAIN levels # {}
    /\ matches(T, Head(levels[best_price(levels, NotSide(T.side))]))

\* The book side levels with order o appended to the queue of its price.
AtTail(levels, o) ==
    [p \in DOMAIN levels \cup {o.type_.limit_price} |->
        IF p = o.type_.limit_price
        THEN (IF p \in DOMAIN levels THEN levels[p] ELSE <<>>) \o <<o>>
        ELSE levels[p]]

\* C15: a post-only GTC limit order never takes liquidity.  If on arrival it
\* matches the best order of the opposing side it ends Cancelled, with no
\* trade and the book sides and the index as before; if it does not, it is
\* booked at the tail of its own price level, with no trade and the opposing
\* side as before.
PostOnlyNeverTakes ==
    [][ (taken'.id # 0 /\ PostOnly(taken'))
          => LET T   == Arrived(taken')
                 opp == NotSide(T.side)
             IN  /\ trades' = <<>>
                 /\ IF MatchesBest(T, own_side(Orderbook, opp))
                    THEN /\ taken'.status = "Cancelled"
                         /\ asks' = asks /\ bids' = bids /\ index' = index
                    ELSE /\ taken' = T
                         /\ own_side([asks |-> asks', bids |-> bids'], opp)
                              = own_side(Orderbook, opp)
                         /\ own_side([asks |-> asks', bids |-> bids'], T.side)
                              = AtTail(own_side(Orderbook, T.side), T)
                         /\ DOMAIN index' = DOMAIN index \cup {T.id}
                         /\ index'[T.id] = [side |-> T.side,
                                            price |-> T.type_.limit_price] ]_vars

\* A post-only order was booked behind another order of its price level
\* while the opposing side holds orders.
PostOnlyNeverTakes_Reached ==
    /\ taken.id # 0
    /\ PostOnly(taken)
    /\ taken.status = "Open"
    /\ own_side(Orderbook, NotSide(taken.side)) # EmptySide
    /\ LET level == own_side(Orderbook, taken.side)[taken.type_.limit_price]
       IN  Len(level) >= 2 /\ level[Len(level)] = taken

\* ---------------------------------------------------------------- C16
\* Whether the book side now is the book side before, level by level and
\* queue position by queue position, with the same remaining quantities,
\* the order old being allowed to carry the id new.
SameSide(now, before, old, new) ==
    /\ DOMAIN now = DOMAIN before
    /\ \A p \in DOMAIN before :
           /\ Len(now[p]) = Len(before[p])
           /\ \A k \in DOMAIN before[p] :
                  /\ now[p][k].side = before[p][k].side
                  /\ now[p][k].type_ = before[p][k].type_
                  /\ remaining(now[p][k]) = remaining(before[p][k])
                  /\ \/ now[p][k].id = before[p][k].id
                     \/ before[p][k].id = old /\ now[p][k].id = new

\* The book is the one kept before the cancel, the id of the re-submitted
\* order apart.
BookRestored ==
    /\ SameSide(asks, snapshot.book.asks, snapshot.order.id, created)
    /\ SameSide(bids, snapshot.book.bids, snapshot.order.id, created)

\* Whether order o is the last of the queue of its price level in book ob.
LastOfLevel(ob, o) ==
    LET level == own_side(ob, o.side)[o.type_.limit_price]
    IN  level[Len(level)].id = o.id

\* C16 as stated: for any book and any resting order o, Cancel(o.id)
\* followed by a Create identical to the one that booked o yields the
\* original book: same levels, same orders in the same queue positions with
\* the same remaining quantities, at most the id of the re-submitted order
\* being new.
RoundTripRestoresBook ==
    snapshot.stage = "resubmitted" => BookRestored

\* C16 amended: for any book and any resting order o that is unfilled
\* (status Open) and the last of the queue of its price level, Cancel(o.id)
\* followed by a Create identical to the one that booked o yields the
\* original book, at most the id of the re-submitted order being new.
RoundTripOfUnfilledTail ==
    ( /\ snapshot.stage = "resubmitted"
      /\ snapshot.order.status = "Open"
      /\ LastOfLevel(snapshot.book, snapshot.order) )
        => BookRestored

\* An unfilled order that was last in a queue of two was cancelled and
\* re-submitted.
RoundTripOfUnfilledTail_Reached ==
    /\ snapshot.stage = "resubmitted"
    /\ snapshot.order.status = "Open"
    /\ LastOfLevel(snapshot.book, snapshot.order)
    /\ Len(own_side(snapshot.book, snapshot.order.side)
             [snapshot.order.type_.limit_price]) >= 2
    /\ created \in DOMAIN index

\* ---------------------------------------------------------------- C17
\* C17: no phantom levels and no non-resting orders in the book.  After
\* every call, every price level of each book side is non-empty and every
\* order in it is a Limit order of that side, priced at the level's price,
\* with status Open or Partial and time in force GTC; no Market order and no
\* IOC (or fill-or-kill) limit order is in the book.
NoPhantomLevels ==
    \A side \in OrderSide :
        LET levels == own_side(Orderbook, side)
        IN  \A p \in DOMAIN levels :
                /\ levels[p] # <<>>
                /\ \A k \in DOMAIN levels[p] :
                       LET o == levels[p][k]
                       IN  /\ o.type_.tag = "Limit"
                           /\ o.side = side
                           /\ o.type_.limit_price = p
                           /\ o.status \in {"Open", "Partial"}
                           /\ o.type_.time_in_force.tag = "GTC"

\* An IOC limit order or a market order traded, emptied a level and was
\* left with a remainder, and orders still rest.
NoPhantomLevels_Reached ==
    /\ taken.id # 0
    /\ taken.type_.tag = "Market" \/ taken.type_.time_in_force.tag = "IOC"
    /\ taken.status = "Closed"
    /\ trades # <<>>
    /\ own_side(Orderbook, NotSide(taken.side)) = EmptySide
    /\ own_side(Orderbook, taken.side) # EmptySide


\* ---------------------------------------------------------------- C18
\* The orders of the state: those resting in the book and the last taker.
OrdersAtHand ==
    Resting(asks) \cup Resting(bids) \cup (IF taken.id # 0 THEN {taken} ELSE {})

\* C18: Overfill is unreachable in matching.  No fill made by the matcher in
\* any sequence of process calls returned Overfill, and for any two orders T
\* and M of the state, with q = T.can_trade(M), both T.fill(q) and M.fill(q)
\* return Ok.
OverfillUnreachable ==
    /\ ~overfill
    /\ \A T \in OrdersAtHand, M \in OrdersAtHand :
           LET q == can_trade(T, M)
           IN  /\ q = Min(remaining(T), remaining(M))
               /\ fill(T, q).result = Ok
               /\ fill(M, q).result = Ok

\* A taker was filled whole against two makers in one call, the second of
\* which rests with a remainder.
OverfillUnreachable_Reached ==
    /\ Len(trades) = 2
    /\ taken.status = "Completed"
    /\ trades[2].maker_id \in DOMAIN index
    /\ ~overfill

\* ---------------------------------------------------------------- C19
\* C19: maker-priced fills.  Every trade of a process call has the call's
\* taker, a maker that rested before the call, the maker's limit price as
\* its price and, as its quantity, the smaller of the taker's and the
\* maker's remaining quantity just before the fill; the quantities of the
\* trades are added to the filled_quantity of the taker, which arrived with
\* none, and of each maker, which leaves the book exactly when it is filled
\* whole.
MakerPricedFills ==
    [][ /\ \A k \in DOMAIN trades' :
              LET t      == trades'[k]
                  M      == resting_order(Orderbook, t.maker_id)
                  sofar  == SubSeq(trades', 1, k - 1)
                  filled == M.filled_quantity + TradedIn(trades', M.id)
              IN  /\ t.taker_id = taken'.id
                  /\ t.maker_id \in DOMAIN index
                  /\ t.price = M.type_.limit_price
                  /\ t.quantity =
                        Min(taken'.order_quantity - TradedIn(sofar, t.taker_id),
                            remaining(M) - TradedIn(sofar, M.id))
                  /\ IF t.maker_id \in DOMAIN index'
                     THEN resting_order([asks |-> asks', bids |-> bids',
                                         index |-> index'], M.id).filled_quantity
                            = filled
                     ELSE filled = M.order_quantity
        /\ taken'.id # 0
              => taken'.filled_quantity = TradedIn(trades', taken'.id) ]_vars

\* A taker traded with two makers, one of them at a price other than the
\* taker's limit price.
MakerPricedFills_Reached ==
    /\ Len(trades) >= 2
    /\ \E k \in DOMAIN trades : trades[k].price # taken.type_.limit_price

\* ---------------------------------------------------------------- C20
\* C20: the book is never crossed at rest.  After every process call, if
\* both sides hold orders the highest bid price is strictly lower than the
\* lowest ask price, and no resting bid matches a resting ask nor a resting
\* ask a resting bid.
NeverCrossed ==
    /\ (asks # EmptySide /\ bids # EmptySide)
          => best_price(bids, "Bid") < best_price(asks, "Ask")
    /\ \A b \in Resting(bids), a \in Resting(asks) :
           ~matches(b, a) /\ ~matches(a, b)

\* A call traded and left orders resting on both sides.
NeverCrossed_Reached ==
    /\ trades # <<>>
    /\ asks # EmptySide
    /\ bids # EmptySide


\* ---------------------------------------------------------------- C21
\* C21: the status agrees with the fill history in every reachable state of
\* an order: status Open or Cancelled implies filled_quantity = 0, and
\* status Partial or Closed implies 0 < filled_quantity < order_quantity.
StatusAgreesWithFills ==
    /\ taker.status \in {"Open", "Cancelled"} => taker.filled_quantity = 0
    /\ taker.status \in {"Partial", "Closed"}
          => /\ 0 < taker.filled_quantity
             /\ taker.filled_quantity < taker.order_quantity


====
